---- MODULE Spec2Model ----
(***************************************************************************)
(* Hybrid retrieval core of Multi_Modal_Rag: the VectorStore (Chroma       *)
(* collection + content_store), the Retriever (BM25 lexical index, dense   *)
(* search, Reciprocal Rank Fusion) and the Streamlit session that owns     *)
(* them.                                                                   *)
(*                                                                         *)
(* Numbers: Python floats are modelled by exact fractions [num, den] in    *)
(* lowest terms (RRF scores) and by fixed-point integers (BM25 scores).    *)
(***************************************************************************)
EXTENDS Integers, Sequences, FiniteSets, TLC

VARIABLES
    collection_live,  \* VectorStore.collection still names an existing Chroma collection
    collection,       \* entries of that collection, in insertion order
    content_store,    \* VectorStore.content_store (dict, insertion ordered)
    next_id,          \* number of uuid4 ids handed out so far
    has_retriever,    \* a Retriever object exists
    bm25,             \* Retriever.bm25 (None or a BM25Okapi built on a corpus)
    doc_ids,          \* Retriever.doc_ids
    doc_summaries,    \* Retriever.doc_summaries
    session,          \* st.session_state of app.py
    reset_pc,         \* position of a running VectorStore.reset()
    op,               \* the call that just ended ("idle": its outcome was consumed)
    arg,              \* its arguments
    result,           \* its return value
    raised,           \* the exception it ended in ("" when it returned)
    after_reset,      \* history: reset() ran and add_documents has not run since
    results_list,     \* input of reciprocal_rank_fusion: the candidate lists
    rrf_k             \* input of reciprocal_rank_fusion: the constant k

vars == <<collection_live, collection, content_store, next_id, has_retriever,
          bm25, doc_ids, doc_summaries, session, reset_pc, op, arg, result,
          raised, after_reset, results_list, rrf_k>>

(***************************************************************************)
(* Generic helpers                                                         *)
(***************************************************************************)
Range(s) == {s[i] : i \in 1..Len(s)}

Min(a, b) == IF a <= b THEN a ELSE b

Take(s, n) == SubSeq(s, 1, Min(n, Len(s)))

InjectiveSeqs(S, n) ==
    UNION {{s \in [1..m -> S] : \A i, j \in 1..m : s[i] = s[j] => i = j} : m \in 0..n}

RECURSIVE Gcd(_, _)
Gcd(a, b) == IF b = 0 THEN a ELSE Gcd(b, a % b)

Lcm(a, b) == (a \div Gcd(a, b)) * b

(***************************************************************************)
(* Fractions: the values of the float expressions of reciprocal_rank_fusion*)
(***************************************************************************)
FracZero == [num |-> 0, den |-> 1]

FracNorm(n, d) == LET g == Gcd(n, d) IN [num |-> n \div g, den |-> d \div g]

FracAdd(x, y) ==
    LET l == Lcm(x.den, y.den)
    IN FracNorm(x.num * (l \div x.den) + y.num * (l \div y.den), l)

FracLess(x, y) ==
    LET l == Lcm(x.den, y.den)
    IN x.num * (l \div x.den) < y.num * (l \div y.den)

(***************************************************************************)
(* Retriever.reciprocal_rank_fusion                                        *)
(***************************************************************************)
\* ranks counted from 0 (enumerate without start=1)
RankScoreFromZero(k, rank) == [num |-> 1, den |-> k + rank - 1]

\* 1 / (k + rank)
RankScore(k, rank) == [num |-> 1, den |-> k + rank]

\* the two nested loops: every (rank, result) in iteration order
RECURSIVE Enumerated(_)
Enumerated(lists) ==
    IF lists = <<>> THEN <<>>
    ELSE [r \in 1..Len(Head(lists)) |-> [rank |-> r, result |-> Head(lists)[r]]]
         \o Enumerated(Tail(lists))

\* doc_scores / doc_info after the loops, as one list in dict insertion order
RECURSIVE Aggregate(_, _, _)
Aggregate(todo, k, acc) ==
    IF todo = <<>> THEN acc
    ELSE LET doc_id == Head(todo).result.id
             seen   == \E i \in 1..Len(acc) : acc[i].id = doc_id
             acc1   == IF seen THEN acc
                       ELSE Append(acc, [id |-> doc_id, score |-> FracZero,
                                         info |-> Head(todo).result])
             acc2   == [i \in 1..Len(acc1) |->
                          IF acc1[i].id = doc_id
                          THEN [acc1[i] EXCEPT !.score =
                                   FracAdd(@, RankScore(k, Head(todo).rank))]
                          ELSE acc1[i]]
         IN Aggregate(Tail(todo), k, acc2)

\* a descending sort that is not stable: an equal score goes in front
InsertDescUnstable(s, x) ==
    LET before == {i \in 1..Len(s) : FracLess(x.score, s[i].score)}
        n      == Cardinality(before)
    IN SubSeq(s, 1, n) \o <<x>> \o SubSeq(s, n + 1, Len(s))

\* sorted(..., key=score, reverse=True): stable, descending
InsertDesc(s, x) ==
    LET before == {i \in 1..Len(s) : ~FracLess(s[i].score, x.score)}
        n      == Cardinality(before)
    IN SubSeq(s, 1, n) \o <<x>> \o SubSeq(s, n + 1, Len(s))

RECURSIVE SortedDesc(_, _)
SortedDesc(todo, acc) ==
    IF todo = <<>> THEN acc
    ELSE SortedDesc(Tail(todo), InsertDesc(acc, Head(todo)))

\* a result rebuilt from the id and the fused score alone
WithOnlyRrfScore(info, score) == [id |-> info.id, rrf_score |-> score]

\* result = doc_info[doc_id].copy(); result['rrf_score'] = score
WithRrfScore(info, score) ==
    [f \in DOMAIN info \cup {"rrf_score"} |->
        IF f = "rrf_score" THEN score ELSE info[f]]

\* a fusion that keeps only the ids every list holds
FusionOfShared(lists, k) ==
    LET sorted_docs == SortedDesc(Aggregate(Enumerated(lists), k, <<>>), <<>>)
        shared(d)   == \A i \in 1..Len(lists) :
                          \E p \in 1..Len(lists[i]) : lists[i][p].id = d.id
        kept        == SelectSeq(sorted_docs, shared)
    IN [i \in 1..Len(kept) |-> WithRrfScore(kept[i].info, kept[i].score)]

reciprocal_rank_fusion(lists, k) ==
    LET sorted_docs == SortedDesc(Aggregate(Enumerated(lists), k, <<>>), <<>>)
    IN [i \in 1..Len(sorted_docs) |->
          WithRrfScore(sorted_docs[i].info, sorted_docs[i].score)]

(***************************************************************************)
(* Values.  Text is a sequence of characters.                              *)
(***************************************************************************)
\* None, one value per field type (pages are 1-based, so 0 is no page)
NoneContent == <<"None">>
NonePage == 0
NoneType == "None"

\* {} (an empty dict)
EmptyDict == <<>>

\* The content items handed to add_documents: a text item and a table as
\* summarize_batch produces them (a 'summary' next to 'content'), and an item
\* that has neither a 'summary' nor a 'content'.
ItemPool ==
    { [type |-> "text",  page |-> 1, content |-> <<"A", " ", "b">>,
       summary |-> <<"A", " ", "b">>, metadata |-> EmptyDict],
      [type |-> "table", page |-> 2, content |-> <<"|">>,
       summary |-> <<"b">>, metadata |-> EmptyDict],
      [type |-> "image", page |-> 3] }

\* the queries
QueryPool == { <<"a">>, <<"B", " ", "z">> }

\* the top_k values of retrieve
TopKPool == {1, 2}

\* ids handed out by uuid.uuid4() over one run (each call is a fresh id)
MaxIds == 3

\* longest list handed to add_documents
MaxBatch == 2

Batches == UNION {[1..n -> ItemPool] : n \in 0..MaxBatch}

(***************************************************************************)
(* VectorStore                                                             *)
(***************************************************************************)
\* item.get(key, default)
ItemGet(item, key, default) == IF key \in DOMAIN item THEN item[key] ELSE default

\* a record that keeps the summary where the original content belongs
StoredSummaryOnly(item, doc_id) ==
    [doc_id |-> doc_id,
     original_content |-> ItemGet(item, "summary", ItemGet(item, "content", <<>>)),
     summary |-> ItemGet(item, "summary", ItemGet(item, "content", <<>>)),
     page |-> item.page,
     type |-> item.type,
     metadata |-> ItemGet(item, "metadata", EmptyDict)]

\* one pass of the loop of add_documents: the content_store record of an item
StoredRecord(item, doc_id) ==
    [doc_id |-> doc_id,
     original_content |-> ItemGet(item, "content", NoneContent),
     summary |-> ItemGet(item, "summary", ItemGet(item, "content", <<>>)),
     page |-> item.page,
     type |-> item.type,
     metadata |-> ItemGet(item, "metadata", EmptyDict)]

\* the row of the Chroma collection for the same item
CollectionEntry(item, doc_id) ==
    [id |-> doc_id,
     document |-> ItemGet(item, "summary", ItemGet(item, "content", <<>>)),
     metadata |-> [page |-> item.page, type |-> item.type, doc_id |-> doc_id]]

\* content_store after the loop of add_documents; ids first+1, first+2, ...
StoreAfterAdd(cs, items, first) ==
    cs \o [i \in 1..Len(items) |-> StoredRecord(items[i], first + i)]

\* the collection after collection.add(...)
CollectionAfterAdd(coll, items, first) ==
    coll \o [i \in 1..Len(items) |-> CollectionEntry(items[i], first + i)]

StoreIds(cs) == {cs[i].doc_id : i \in 1..Len(cs)}

CollectionIds(coll) == {coll[i].id : i \in 1..Len(coll)}

\* content_store.get(doc_id): the records under that key (none, or one)
StoreGet(cs, doc_id) == SelectSeq(cs, LAMBDA r : r.doc_id = doc_id)

\* VectorStore.get_original_content, <<>> for None
get_original_content(cs, doc_id) == StoreGet(cs, doc_id)

\* VectorStore.get_all_documents
get_all_documents(cs) == cs

\* one formatted result of VectorStore.search; distance is the position in
\* the similarity order
SearchResult(cs, e, pos) ==
    [id |-> e.id,
     distance |-> pos,
     metadata |-> e.metadata,
     document |-> e.document,
     original_content |->
         IF StoreGet(cs, e.id) = <<>> THEN NoneContent
         ELSE StoreGet(cs, e.id)[1].original_content,
     page |-> e.metadata.page,
     type |-> e.metadata.type]

\* what collection.query may answer for n_results = n: the embedding model
\* decides the order, so every order of min(n, count) entries is possible
QueryOrders(coll, n) ==
    {s \in InjectiveSeqs(1..Len(coll), Min(n, Len(coll))) : Len(s) = Min(n, Len(coll))}

\* VectorStore.search for one such answer
search(cs, coll, order) ==
    [i \in 1..Len(order) |-> SearchResult(cs, coll[order[i]], i)]

(***************************************************************************)
(* Tokenizing: summary.lower().split()                                     *)
(***************************************************************************)
LowerChar(c) == CASE c = "A" -> "a" [] c = "B" -> "b" [] OTHER -> c

Lower(text) == [i \in 1..Len(text) |-> LowerChar(text[i])]

\* str.split(): the maximal runs of non-blank characters
RECURSIVE SplitFrom(_, _, _)
SplitFrom(text, word, acc) ==
    IF text = <<>> THEN (IF word = <<>> THEN acc ELSE Append(acc, word))
    ELSE IF Head(text) = " "
         THEN SplitFrom(Tail(text), <<>>, IF word = <<>> THEN acc ELSE Append(acc, word))
         ELSE SplitFrom(Tail(text), Append(word, Head(text)), acc)

Split(text) == SplitFrom(text, <<>>, <<>>)

Tokenize(text) == Split(Lower(text))

(***************************************************************************)
(* BM25Okapi(tokenized_docs), k1 = 1.5, b = 0.75, epsilon = 0.25.          *)
(* Scores are fixed-point, in units of 1/10000.                            *)
(***************************************************************************)
\* 10000 * ln(n) for odd n = 2i - 1 (ln(x + 0.5) = ln(2x + 1) - ln 2)
LnOdd == <<0, 10986, 16094, 19459, 21972, 23979, 25649, 27080, 28332,
           29444, 30445>>

Ln2xPlus1(x) == LnOdd[x + 1]

\* the words of the corpus (the keys of nd / idf)
Vocabulary(corpus) == UNION {Range(corpus[i]) : i \in 1..Len(corpus)}

\* nd[word]: the number of documents holding the word
DocFreq(corpus, word) == Cardinality({i \in 1..Len(corpus) : word \in Range(corpus[i])})

\* doc_freqs[i].get(word) or 0
TermFreq(doc, word) == Cardinality({j \in 1..Len(doc) : doc[j] = word})

\* sum of doc_len (avgdl = TotalLen / corpus_size)
RECURSIVE TotalLen(_)
TotalLen(corpus) ==
    IF corpus = <<>> THEN 0 ELSE Len(Head(corpus)) + TotalLen(Tail(corpus))

\* math.log(corpus_size - freq + 0.5) - math.log(freq + 0.5)
RawIdf(corpus, word) ==
    Ln2xPlus1(Len(corpus) - DocFreq(corpus, word)) - Ln2xPlus1(DocFreq(corpus, word))

\* idf_sum over the given words
RECURSIVE IdfSumOver(_, _)
IdfSumOver(corpus, words) ==
    IF words = {} THEN 0
    ELSE LET w == CHOOSE x \in words : TRUE
         IN RawIdf(corpus, w) + IdfSumOver(corpus, words \ {w})

IdfSum(corpus) == IdfSumOver(corpus, Vocabulary(corpus))

\* BM25Okapi raises ZeroDivisionError (idf_sum / len(self.idf)) on a corpus
\* without a single word
Bm25Raises(corpus) == Vocabulary(corpus) = {}

\* self.idf after _calc_idf: negative idfs replaced by epsilon * average_idf
IdfTable(corpus) ==
    LET words == Vocabulary(corpus)
        eps   == IdfSumOver(corpus, words) \div (4 * Cardinality(words))
    IN [w \in words |-> IF RawIdf(corpus, w) < 0 THEN eps ELSE RawIdf(corpus, w)]

\* (self.idf.get(q) or 0) * q_freq * (k1 + 1)
\*    / (q_freq + k1 * (1 - b + b * doc_len / avgdl)),
\* numerator and denominator multiplied by 8 * TotalLen
TermScore(corpus, idf, total, i, word) ==
    LET tf == TermFreq(corpus[i], word)
    IN ((IF word \in DOMAIN idf THEN idf[word] ELSE 0) * 20 * tf * total)
       \div (8 * tf * total + 3 * total + 9 * Len(corpus[i]) * Len(corpus))

RECURSIVE DocScore(_, _, _, _, _)
DocScore(corpus, idf, total, i, query_tokens) ==
    IF query_tokens = <<>> THEN 0
    ELSE TermScore(corpus, idf, total, i, Head(query_tokens))
         + DocScore(corpus, idf, total, i, Tail(query_tokens))

\* bm25.get_scores(query_tokens): one score per document of the corpus
get_scores(corpus, query_tokens) ==
    LET idf   == IdfTable(corpus)
        total == TotalLen(corpus)
    IN [i \in 1..Len(corpus) |-> DocScore(corpus, idf, total, i, query_tokens)]

(***************************************************************************)
(* Retriever                                                               *)
(***************************************************************************)
\* self.bm25 = None
NoBm25 == [built |-> FALSE, corpus |-> <<>>]

\* a build that appends the documents to the index it finds
BuildKeywordIndexAppending(old_bm25, old_ids, old_summaries, cs) ==
    LET all_docs       == get_all_documents(cs)
        tokenized_docs == [i \in 1..Len(all_docs) |-> Tokenize(all_docs[i].summary)]
        ids            == [i \in 1..Len(all_docs) |-> all_docs[i].doc_id]
        summaries      == [i \in 1..Len(all_docs) |-> all_docs[i].summary]
    IN IF all_docs = <<>>
       THEN [bm25 |-> old_bm25, doc_ids |-> old_ids,
             doc_summaries |-> old_summaries, raised |-> ""]
       ELSE IF Bm25Raises(tokenized_docs)
            THEN [bm25 |-> old_bm25, doc_ids |-> ids,
                  doc_summaries |-> summaries, raised |-> "ZeroDivisionError"]
            ELSE [bm25 |-> [built |-> TRUE, corpus |-> old_bm25.corpus \o tokenized_docs],
                  doc_ids |-> old_ids \o ids, doc_summaries |-> old_summaries \o summaries,
                  raised |-> ""]

\* Retriever._build_keyword_index on the given retriever fields: the fields
\* after the call and the exception it ended in
_build_keyword_index(old_bm25, old_ids, old_summaries, cs) ==
    LET all_docs       == get_all_documents(cs)
        tokenized_docs == [i \in 1..Len(all_docs) |-> Tokenize(all_docs[i].summary)]
        ids            == [i \in 1..Len(all_docs) |-> all_docs[i].doc_id]
        summaries      == [i \in 1..Len(all_docs) |-> all_docs[i].summary]
    IN IF all_docs = <<>>
       THEN [bm25 |-> old_bm25, doc_ids |-> old_ids,
             doc_summaries |-> old_summaries, raised |-> ""]
       ELSE IF Bm25Raises(tokenized_docs)
            THEN [bm25 |-> old_bm25, doc_ids |-> ids,
                  doc_summaries |-> summaries, raised |-> "ZeroDivisionError"]
            ELSE [bm25 |-> [built |-> TRUE, corpus |-> tokenized_docs],
                  doc_ids |-> ids, doc_summaries |-> summaries, raised |-> ""]

\* np.argsort(scores)[::-1][:k]: indices by descending score, equal scores by
\* descending index (the ascending sort is stable on arrays this small)
TopIndices(scores, k) ==
    LET n        == Len(scores)
        ahead(i) == {j \in 1..n : scores[j] > scores[i]
                                  \/ (scores[j] = scores[i] /\ j > i)}
        sorted   == [p \in 1..n |-> CHOOSE i \in 1..n : Cardinality(ahead(i)) = p - 1]
    IN Take(sorted, k)

\* an entry joined to the content store by summary text instead of by id
KeywordResultBySummary(cs, ids, summaries, idx, score) ==
    LET original_content == SelectSeq(cs, LAMBDA r : r.summary = summaries[idx])
    IN [id |-> ids[idx],
        score |-> score,
        document |-> summaries[idx],
        original_content |-> IF original_content # <<>>
                             THEN original_content[1].original_content ELSE NoneContent,
        page |-> IF original_content # <<>> THEN original_content[1].page ELSE NonePage,
        type |-> IF original_content # <<>> THEN original_content[1].type ELSE NoneType,
        metadata |-> IF original_content # <<>>
                     THEN original_content[1].metadata ELSE EmptyDict]

\* one entry of the results of keyword_search
KeywordResult(cs, ids, summaries, idx, score) ==
    LET original_content == get_original_content(cs, ids[idx])
    IN [id |-> ids[idx],
        score |-> score,
        document |-> summaries[idx],
        original_content |-> IF original_content # <<>>
                             THEN original_content[1].original_content ELSE NoneContent,
        page |-> IF original_content # <<>> THEN original_content[1].page ELSE NonePage,
        type |-> IF original_content # <<>> THEN original_content[1].type ELSE NoneType,
        metadata |-> IF original_content # <<>>
                     THEN original_content[1].metadata ELSE EmptyDict]

\* keyword_search without the 'if not self.bm25' guard: None has no get_scores
KeywordSearchUnguarded(b, ids, summaries, cs, query, k) ==
    IF ~b.built THEN [result |-> <<>>, raised |-> "AttributeError"]
    ELSE LET scores      == get_scores(b.corpus, Tokenize(query))
             top_indices == TopIndices(scores, k)
             hits        == SelectSeq(top_indices, LAMBDA idx : scores[idx] > 0)
         IN [result |-> [p \in 1..Len(hits) |->
                           KeywordResult(cs, ids, summaries, hits[p], scores[hits[p]])],
             raised |-> ""]

\* Retriever.keyword_search: [result, raised]
keyword_search(b, ids, summaries, cs, query, k) ==
    IF ~b.built THEN [result |-> <<>>, raised |-> ""]
    ELSE LET scores      == get_scores(b.corpus, Tokenize(query))
             top_indices == TopIndices(scores, k)
             hits        == SelectSeq(top_indices, LAMBDA idx : scores[idx] > 0)
         IN IF \E p \in 1..Len(hits) : hits[p] > Len(ids)
            THEN [result |-> <<>>, raised |-> "IndexError"]
            ELSE [result |-> [p \in 1..Len(hits) |->
                                KeywordResult(cs, ids, summaries, hits[p], scores[hits[p]])],
                  raised |-> ""]

\* default k of reciprocal_rank_fusion
RrfK == 60

\* the fused list handed back whole
Untruncated(fused_results, top_k) == fused_results

\* fused_results[:top_k]
Truncated(fused_results, top_k) == Take(fused_results, top_k)

\* Retriever.retrieve, given the answer of the dense index: [result, raised]
retrieve(b, ids, summaries, cs, live, dense_results, query, top_k) ==
    LET keyword_results == keyword_search(b, ids, summaries, cs, query, top_k * 2)
    IN IF ~live THEN [result |-> <<>>, raised |-> "ChromaError"]
       ELSE IF keyword_results.raised # "" THEN keyword_results
       ELSE [result |-> Truncated(reciprocal_rank_fusion(
                                     <<dense_results, keyword_results.result>>, RrfK),
                                  top_k),
             raised |-> ""]

(***************************************************************************)
(* State after construction: VectorStore() on a fresh client, no Retriever *)
(***************************************************************************)
NoSession == [vector_store |-> FALSE, retriever |-> FALSE, document_processed |-> FALSE]

Init ==
    /\ collection_live = TRUE
    /\ collection = <<>>
    /\ content_store = <<>>
    /\ next_id = 0
    /\ has_retriever = FALSE
    /\ bm25 = NoBm25
    /\ doc_ids = <<>>
    /\ doc_summaries = <<>>
    /\ session = NoSession
    /\ reset_pc = "idle"
    /\ op = "idle"
    /\ arg = <<>>
    /\ result = <<>>
    /\ raised = ""
    /\ after_reset = FALSE
    /\ results_list = <<>>
    /\ rrf_k = RrfK

store_vars == <<collection_live, collection, content_store, next_id>>
retriever_vars == <<has_retriever, bm25, doc_ids, doc_summaries>>
other_vars == <<session, reset_pc, results_list, rrf_k>>

(***************************************************************************)
(* The calls of the library, each one whole.  The caller is sequential: a  *)
(* call starts when the outcome of the one before has been consumed.       *)
(***************************************************************************)
\* VectorStore.add_documents(items).  item['page'] / item['type'] raise
\* KeyError inside the loop, after the passes before have written their
\* records; collection.add runs after the loop and raises on a collection
\* that was deleted, or when add_raises says the Chroma client fails.
AddDocuments(items, add_raises) ==
    LET bad    == {i \in 1..Len(items) : ~({"page", "type"} \subseteq DOMAIN items[i])}
        first  == IF bad = {} THEN Len(items) + 1
                  ELSE CHOOSE i \in bad : \A j \in bad : i <= j
        stored == SubSeq(items, 1, first - 1)
    IN /\ op = "idle"
       /\ add_raises => (bad = {} /\ items # <<>>)
       /\ content_store' = StoreAfterAdd(content_store, stored, next_id)
       /\ next_id' = next_id + Min(first, Len(items))
       /\ IF bad # {}
          THEN /\ collection' = collection
               /\ raised' = "KeyError"
          ELSE IF items # <<>> /\ (~collection_live \/ add_raises)
          THEN /\ collection' = collection
               /\ raised' = "ChromaError"
          ELSE /\ collection' = CollectionAfterAdd(collection, items, next_id)
               /\ raised' = ""
       /\ op' = "add_documents"
       /\ arg' = items
       /\ result' = <<>>
       /\ after_reset' = FALSE
       /\ UNCHANGED <<collection_live, retriever_vars, other_vars>>

\* VectorStore.reset()
Reset ==
    /\ op = "idle"
    /\ collection_live' = TRUE
    /\ collection' = <<>>
    /\ content_store' = <<>>
    /\ op' = "reset"
    /\ arg' = <<>>
    /\ result' = <<>>
    /\ raised' = ""
    /\ after_reset' = TRUE
    /\ UNCHANGED <<next_id, retriever_vars, other_vars>>

\* Retriever(vector_store)
NewRetriever ==
    /\ op = "idle"
    /\ LET built == _build_keyword_index(NoBm25, <<>>, <<>>, content_store)
       IN IF built.raised = ""
          THEN /\ has_retriever' = TRUE
               /\ bm25' = built.bm25
               /\ doc_ids' = built.doc_ids
               /\ doc_summaries' = built.doc_summaries
               /\ raised' = ""
          ELSE /\ raised' = built.raised
               /\ UNCHANGED retriever_vars
    /\ op' = "Retriever"
    /\ arg' = <<>>
    /\ result' = <<>>
    /\ UNCHANGED <<store_vars, after_reset, other_vars>>

\* Retriever.rebuild_index()
RebuildIndex ==
    /\ op = "idle"
    /\ has_retriever
    /\ LET built == _build_keyword_index(bm25, doc_ids, doc_summaries, content_store)
       IN /\ bm25' = built.bm25
          /\ doc_ids' = built.doc_ids
          /\ doc_summaries' = built.doc_summaries
          /\ raised' = built.raised
    /\ op' = "rebuild_index"
    /\ arg' = <<>>
    /\ result' = <<>>
    /\ UNCHANGED <<store_vars, has_retriever, after_reset, other_vars>>

\* VectorStore.search(query, n) / Retriever.dense_search(query, n)
Search(query, n, order) ==
    /\ op = "idle"
    /\ IF collection_live
       THEN /\ result' = search(content_store, collection, order)
            /\ raised' = ""
       ELSE /\ result' = <<>>
            /\ raised' = "ChromaError"
    /\ op' = "search"
    /\ arg' = [query |-> query, k |-> n]
    /\ UNCHANGED <<store_vars, retriever_vars, after_reset, other_vars>>

\* Retriever.keyword_search(query, k)
KeywordSearch(query, k) ==
    /\ op = "idle"
    /\ has_retriever
    /\ LET r == keyword_search(bm25, doc_ids, doc_summaries, content_store, query, k)
       IN /\ result' = r.result
          /\ raised' = r.raised
    /\ op' = "keyword_search"
    /\ arg' = [query |-> query, k |-> k]
    /\ UNCHANGED <<store_vars, retriever_vars, after_reset, other_vars>>

\* Retriever.retrieve(query, top_k)
Retrieve(query, top_k, order) ==
    /\ op = "idle"
    /\ has_retriever
    /\ LET r == retrieve(bm25, doc_ids, doc_summaries, content_store, collection_live,
                         search(content_store, collection, order), query, top_k)
       IN /\ result' = r.result
          /\ raised' = r.raised
    /\ op' = "retrieve"
    /\ arg' = [query |-> query, k |-> top_k]
    /\ UNCHANGED <<store_vars, retriever_vars, after_reset, other_vars>>

\* VectorStore.get_all_documents()
GetAllDocuments ==
    /\ op = "idle"
    /\ result' = get_all_documents(content_store)
    /\ raised' = ""
    /\ op' = "get_all_documents"
    /\ arg' = <<>>
    /\ UNCHANGED <<store_vars, retriever_vars, after_reset, other_vars>>

\* VectorStore.get_original_content(doc_id)
GetOriginalContent(doc_id) ==
    /\ op = "idle"
    /\ result' = get_original_content(content_store, doc_id)
    /\ raised' = ""
    /\ op' = "get_original_content"
    /\ arg' = doc_id
    /\ UNCHANGED <<store_vars, retriever_vars, after_reset, other_vars>>

\* the caller takes the outcome of the call that ended
Consume ==
    /\ op # "idle"
    /\ op' = "idle"
    /\ arg' = <<>>
    /\ result' = <<>>
    /\ raised' = ""
    /\ UNCHANGED <<store_vars, retriever_vars, after_reset, other_vars>>

Next ==
    \/ \E items \in Batches :
          next_id + Len(items) <= MaxIds /\ AddDocuments(items, FALSE)
    \/ Reset
    \/ NewRetriever
    \/ RebuildIndex
    \/ \E q \in QueryPool, k \in TopKPool :
          \E order \in QueryOrders(collection, 2 * k) : Search(q, 2 * k, order)
    \/ \E q \in QueryPool, k \in TopKPool : KeywordSearch(q, 2 * k)
    \/ \E q \in QueryPool, k \in TopKPool :
          \E order \in QueryOrders(collection, 2 * k) : Retrieve(q, k, order)
    \/ GetAllDocuments
    \/ \E doc_id \in 1..MaxIds : GetOriginalContent(doc_id)
    \/ Consume

Spec == Init /\ [][Next]_vars

(***************************************************************************)
(* reset() statement by statement, with another thread reading.  Nothing   *)
(* in VectorStore or Retriever takes a lock, so a reader can run between   *)
(* any two statements of reset().                                          *)
(***************************************************************************)
\* try: self.client.delete_collection(name=self.collection_name)
ResetDelete ==
    /\ reset_pc = "idle"
    /\ collection_live' = FALSE
    /\ collection' = <<>>
    /\ reset_pc' = "deleted"
    /\ UNCHANGED <<content_store, next_id, retriever_vars, session, op, arg, result,
                   raised, after_reset, results_list, rrf_k>>

\* self.collection = self.client.create_collection(...)
ResetCreate ==
    /\ reset_pc = "deleted"
    /\ collection_live' = TRUE
    /\ collection' = <<>>
    /\ reset_pc' = "created"
    /\ UNCHANGED <<content_store, next_id, retriever_vars, session, op, arg, result,
                   raised, after_reset, results_list, rrf_k>>

\* self.content_store = {}
ResetClear ==
    /\ reset_pc = "created"
    /\ content_store' = <<>>
    /\ reset_pc' = "idle"
    /\ after_reset' = TRUE
    /\ UNCHANGED <<collection_live, collection, next_id, retriever_vars, session, op,
                   arg, result, raised, results_list, rrf_k>>

NextConc ==
    \/ \E items \in Batches :
          reset_pc = "idle" /\ next_id + Len(items) <= MaxIds /\ AddDocuments(items, FALSE)
    \/ reset_pc = "idle" /\ NewRetriever
    \/ reset_pc = "idle" /\ RebuildIndex
    \/ ResetDelete
    \/ ResetCreate
    \/ ResetClear
    \/ \E q \in QueryPool, k \in TopKPool :
          \E order \in QueryOrders(collection, 2 * k) : Search(q, 2 * k, order)
    \/ \E q \in QueryPool, k \in TopKPool : KeywordSearch(q, 2 * k)
    \/ \E q \in QueryPool, k \in TopKPool :
          \E order \in QueryOrders(collection, 2 * k) : Retrieve(q, k, order)
    \/ GetAllDocuments
    \/ \E doc_id \in 1..MaxIds : GetOriginalContent(doc_id)
    \/ Consume

SpecConc == Init /\ [][NextConc]_vars

(***************************************************************************)
(* The store under calls that abort: add_documents on items that lack a    *)
(* key and with a Chroma client that can fail, among items that share      *)
(* their summary text.                                                     *)
(***************************************************************************)
\* two items with the same summary on different pages, an item of other
\* words, an item without a 'page'
TwinPool ==
    { [type |-> "text",  page |-> 1, content |-> <<"b">>,
       summary |-> <<"b">>, metadata |-> EmptyDict],
      [type |-> "table", page |-> 2, content |-> <<"|">>,
       summary |-> <<"b">>, metadata |-> EmptyDict],
      [type |-> "text",  page |-> 3, content |-> <<"A", " ", "z">>,
       summary |-> <<"A", " ", "z">>, metadata |-> EmptyDict],
      [type |-> "image"] }

TwinBatches == UNION {[1..n -> TwinPool] : n \in 0..MaxBatch}

NextStore ==
    \/ \E items \in TwinBatches, add_raises \in BOOLEAN :
          next_id + Len(items) <= MaxIds /\ AddDocuments(items, add_raises)
    \/ Reset
    \/ NewRetriever
    \/ \E q \in QueryPool, k \in TopKPool :
          \E order \in QueryOrders(collection, 2 * k) : Search(q, 2 * k, order)
    \/ \E q \in QueryPool, k \in TopKPool : KeywordSearch(q, 2 * k)
    \/ \E doc_id \in 1..MaxIds : GetOriginalContent(doc_id)
    \/ Consume

SpecStore == Init /\ [][NextStore]_vars

(***************************************************************************)
(* app.py: one Streamlit session.  The store and retriever variables hold  *)
(* the objects st.session_state refers to.  Every VectorStore() opens the  *)
(* same in-process Chroma client and works on the one collection named     *)
(* "document_collection".                                                  *)
(***************************************************************************)
\* top_k of the Search button
AppTopK == 5

\* summarized_content of the PDFs a user may upload: text blocks (never
\* blank), tables with the summary the model returned (stripped, so it may
\* be empty), no extractable content at all
PdfPool ==
    { <<>>,
      << [type |-> "text",  page |-> 1, content |-> <<"A", " ", "b">>,
          summary |-> <<"A", " ", "b">>, metadata |-> EmptyDict] >>,
      << [type |-> "text",  page |-> 1, content |-> <<"a">>,
          summary |-> <<"a">>, metadata |-> EmptyDict],
         [type |-> "table", page |-> 1, content |-> <<"|">>,
          summary |-> <<"b">>, metadata |-> EmptyDict],
         [type |-> "table", page |-> 2, content |-> <<"|">>,
          summary |-> <<>>, metadata |-> EmptyDict] >>,
      << [type |-> "table", page |-> 1, content |-> <<"|">>,
          summary |-> <<>>, metadata |-> EmptyDict] >> }

\* where process_document can end in an exception of a collaborator
FailurePoints == {"none", "extract", "add"}

\* process_document(pdf_file, api_key); items is the summarized content of
\* the file, fails the step at which a collaborator raises
ProcessDocument(items, fails) ==
    /\ op = "idle"
    /\ fails = "add" => items # <<>>
    /\ fails = "extract" \/ next_id + Len(items) <= MaxIds
    /\ op' = "process_document"
    /\ arg' = items
    /\ raised' = ""
    /\ IF fails = "extract"
       THEN \* processor.process() or summarize_batch raised: nothing was touched
            /\ result' = <<FALSE>>
            /\ UNCHANGED <<store_vars, retriever_vars, session>>
       ELSE LET \* vector_store = VectorStore(); vector_store.add_documents(...)
                new_store == StoreAfterAdd(<<>>, items, next_id)
                new_coll  == CollectionAfterAdd(<<>>, items, next_id)
                \* retriever = Retriever(vector_store); retriever.rebuild_index()
                built     == _build_keyword_index(NoBm25, <<>>, <<>>, new_store)
            IN /\ next_id' = next_id + Len(items)
               /\ IF fails = "add" \/ built.raised # ""
                  THEN \* the except branch: session_state keeps the old objects,
                       \* whose collection VectorStore() has deleted
                       /\ result' = <<FALSE>>
                       /\ collection_live' = FALSE
                       /\ collection' = <<>>
                       /\ UNCHANGED <<content_store, retriever_vars, session>>
                  ELSE /\ result' = <<TRUE>>
                       /\ collection_live' = TRUE
                       /\ collection' = new_coll
                       /\ content_store' = new_store
                       /\ has_retriever' = TRUE
                       /\ bm25' = built.bm25
                       /\ doc_ids' = built.doc_ids
                       /\ doc_summaries' = built.doc_summaries
                       /\ session' = [vector_store |-> TRUE, retriever |-> TRUE,
                                      document_processed |-> TRUE]
    /\ UNCHANGED <<reset_pc, after_reset, results_list, rrf_k>>

\* the Reset button
ResetButton ==
    /\ op = "idle"
    /\ session.document_processed
    /\ session' = NoSession
    /\ collection_live' = FALSE
    /\ collection' = <<>>
    /\ content_store' = <<>>
    /\ has_retriever' = FALSE
    /\ bm25' = NoBm25
    /\ doc_ids' = <<>>
    /\ doc_summaries' = <<>>
    /\ op' = "reset_button"
    /\ arg' = <<>>
    /\ result' = <<>>
    /\ raised' = ""
    /\ UNCHANGED <<next_id, reset_pc, after_reset, results_list, rrf_k>>

\* the Search button: st.session_state.retriever.retrieve(query, top_k=5)
SearchButton(query, order) ==
    /\ op = "idle"
    /\ session.document_processed
    /\ LET r == retrieve(bm25, doc_ids, doc_summaries, content_store, collection_live,
                         search(content_store, collection, order), query, AppTopK)
       IN /\ result' = r.result
          /\ raised' = r.raised
    /\ op' = "search_button"
    /\ arg' = [query |-> query, k |-> AppTopK]
    /\ UNCHANGED <<store_vars, retriever_vars, after_reset, other_vars>>

InitApp ==
    /\ collection_live = FALSE
    /\ collection = <<>>
    /\ content_store = <<>>
    /\ next_id = 0
    /\ has_retriever = FALSE
    /\ bm25 = NoBm25
    /\ doc_ids = <<>>
    /\ doc_summaries = <<>>
    /\ session = NoSession
    /\ reset_pc = "idle"
    /\ op = "idle"
    /\ arg = <<>>
    /\ result = <<>>
    /\ raised = ""
    /\ after_reset = FALSE
    /\ results_list = <<>>
    /\ rrf_k = RrfK

NextApp ==
    \/ \E items \in PdfPool, fails \in FailurePoints : ProcessDocument(items, fails)
    \/ ResetButton
    \/ \E q \in QueryPool :
          \E order \in QueryOrders(collection, 2 * AppTopK) : SearchButton(q, order)
    \/ Consume

SpecApp == InitApp /\ [][NextApp]_vars

(***************************************************************************)
(* reciprocal_rank_fusion on its own: the inputs are drawn from bounded    *)
(* sets, the one action applies the function.                              *)
(***************************************************************************)
\* the ids of the candidates
IdPool == {"A", "B", "C", "D"}

\* longest candidate list
MaxLen == 3

\* the number of lists retrieve fuses: [dense_results, keyword_results]
FusedLists == 2

\* the values of k
KPool == {1, 60}

\* the ranked lists the i-th retrieval method can hand over: a ranking names
\* an id once; 'method' stands for the fields only that method sets
RankedLists(i) ==
    {[p \in 1..Len(s) |-> [id |-> s[p], method |-> i]] : s \in InjectiveSeqs(IdPool, MaxLen)}

ResultsLists == UNION {[1..n -> RankedLists(1)] : n \in 0..FusedLists}

\* the same lists, each candidate tagged with the position of its list
Tagged(ll) == [i \in 1..Len(ll) |-> [p \in 1..Len(ll[i]) |-> [ll[i][p] EXCEPT !.method = i]]]

InitRRF ==
    /\ collection_live = TRUE
    /\ collection = <<>>
    /\ content_store = <<>>
    /\ next_id = 0
    /\ has_retriever = TRUE
    /\ bm25 = NoBm25
    /\ doc_ids = <<>>
    /\ doc_summaries = <<>>
    /\ session = NoSession
    /\ reset_pc = "idle"
    /\ op = "idle"
    /\ arg = <<>>
    /\ result = <<>>
    /\ raised = ""
    /\ after_reset = FALSE
    /\ results_list \in {Tagged(ll) : ll \in ResultsLists}
    /\ rrf_k \in KPool

\* Retriever.reciprocal_rank_fusion(results_list, k)
Fuse ==
    /\ op = "idle"
    /\ op' = "reciprocal_rank_fusion"
    /\ arg' = <<>>
    /\ result' = reciprocal_rank_fusion(results_list, rrf_k)
    /\ raised' = ""
    /\ UNCHANGED <<store_vars, retriever_vars, after_reset, other_vars>>

NextRRF == Fuse

SpecRRF == InitRRF /\ [][NextRRF]_vars

(***************************************************************************)
(* Properties of reciprocal_rank_fusion (SpecRRF)                          *)
(***************************************************************************)
InputIds == UNION {{results_list[i][p].id : p \in 1..Len(results_list[i])} : i \in 1..Len(results_list)}

\* the lists that hold the id
ListsWith(id) ==
    {i \in 1..Len(results_list) : \E p \in 1..Len(results_list[i]) : results_list[i][p].id = id}

\* k + r for the rank r of the id in list i
Denominator(i, id) ==
    rrf_k + (CHOOSE p \in 1..Len(results_list[i]) : results_list[i][p].id = id)

RECURSIVE ProductOver(_, _)
ProductOver(S, id) ==
    IF S = {} THEN 1
    ELSE LET i == CHOOSE x \in S : TRUE IN Denominator(i, id) * ProductOver(S \ {i}, id)

RECURSIVE NumeratorOver(_, _, _)
NumeratorOver(S, id, prod) ==
    IF S = {} THEN 0
    ELSE LET i == CHOOSE x \in S : TRUE
         IN (prod \div Denominator(i, id)) + NumeratorOver(S \ {i}, id, prod)

\* score = sum over the lists holding the id of 1 / (k + r)
IsSumOfReciprocalRanks(score, id) ==
    LET prod == ProductOver(ListsWith(id), id)
    IN score.num * prod = score.den * NumeratorOver(ListsWith(id), id, prod)

ScoreAtLeast(x, y) == x.num * y.den >= y.num * x.den

ExampleLists ==
    << <<[id |-> "A", method |-> 1], [id |-> "B", method |-> 1], [id |-> "C", method |-> 1]>>,
       <<[id |-> "B", method |-> 2], [id |-> "C", method |-> 2], [id |-> "D", method |-> 2]>> >>

ResultIds == [i \in 1..Len(result) |-> result[i].id]

\* C1: reciprocal_rank_fusion gives every id of the input lists an rrf_score
\* equal to the sum, over the lists that hold it, of 1/(k + r), r its 1-based
\* rank in the list; the results are in descending rrf_score order; for
\* L1 = [A,B,C], L2 = [B,C,D], k = 60 the order is B, C, A, D.
C1_RrfScoresAndOrder ==
    op = "reciprocal_rank_fusion" =>
        /\ \A id \in InputIds : \E i \in 1..Len(result) : result[i].id = id
        /\ \A i \in 1..Len(result) : IsSumOfReciprocalRanks(result[i].rrf_score, result[i].id)
        /\ \A i, j \in 1..Len(result) :
              i < j => ScoreAtLeast(result[i].rrf_score, result[j].rrf_score)
        /\ (results_list = ExampleLists /\ rrf_k = 60) => ResultIds = <<"B", "C", "A", "D">>

C1_Witness ==
    /\ op = "reciprocal_rank_fusion"
    /\ results_list = ExampleLists
    /\ rrf_k = 60
    /\ ResultIds = <<"B", "C", "A", "D">>
    /\ result[1].rrf_score = [num |-> 123, den |-> 3782]

\* C5: the fused output holds every id of the input lists exactly once and no
\* other id; an id that only one list holds is kept, with 1/(k + r) as score.
C5_EveryIdOnce ==
    op = "reciprocal_rank_fusion" =>
        /\ {result[i].id : i \in 1..Len(result)} = InputIds
        /\ Len(result) = Cardinality(InputIds)
        /\ \A i \in 1..Len(result) :
              Cardinality(ListsWith(result[i].id)) = 1 =>
                 LET l == CHOOSE x \in ListsWith(result[i].id) : TRUE
                 IN result[i].rrf_score = [num |-> 1, den |-> Denominator(l, result[i].id)]

C5_Witness ==
    /\ op = "reciprocal_rank_fusion"
    /\ Len(results_list) = 2
    /\ \E i \in 1..Len(result) :
          /\ ListsWith(result[i].id) = {2}
          /\ result[i].rrf_score = [num |-> 1, den |-> Denominator(2, result[i].id)]
    /\ \E i \in 1..Len(result) : ListsWith(result[i].id) = {1, 2}

\* the candidate record of the id in the first list that holds it
FirstCandidate(id) ==
    LET l == CHOOSE i \in ListsWith(id) : \A j \in ListsWith(id) : i <= j
        p == CHOOSE q \in 1..Len(results_list[l]) : results_list[l][q].id = id
    IN results_list[l][p]

FieldsKept ==
    \A i \in 1..Len(result) :
        LET cand == FirstCandidate(result[i].id)
        IN /\ DOMAIN result[i] = DOMAIN cand \cup {"rrf_score"}
           /\ \A f \in DOMAIN cand : result[i][f] = cand[f]

\* C12: every fused result carries all fields of the candidate record of the
\* first input list that holds its id, unchanged, plus an rrf_score field,
\* and the call leaves the candidate records of the input lists as they were.
C12_FieldsOfFirstList ==
    [][(op' = "reciprocal_rank_fusion") => (results_list' = results_list /\ FieldsKept')]_vars

C12_Witness ==
    /\ op = "reciprocal_rank_fusion"
    /\ \E i, j \in 1..Len(result) :
          /\ ListsWith(result[i].id) = {1, 2}
          /\ result[i].method = 1
          /\ "rrf_score" \in DOMAIN result[i]
          /\ ListsWith(result[j].id) = {2}
          /\ result[j].method = 2

\* the position of the first appearance of the id: lists in the order given,
\* each list in rank order
FirstSeen(id) ==
    LET before(l, p) == {<<i, q>> \in (1..Len(results_list)) \X (1..MaxLen + 1) :
                            /\ q <= Len(results_list[i])
                            /\ (i < l \/ (i = l /\ q < p))}
        l == CHOOSE i \in ListsWith(id) : \A j \in ListsWith(id) : i <= j
        p == CHOOSE q \in 1..Len(results_list[l]) : results_list[l][q].id = id
    IN Cardinality(before(l, p))

\* C16: two ids with exactly equal rrf_score come out in the order of their
\* first appearance across the inputs; the fused order is fixed by the inputs
\* (descending score, then first appearance, which no two ids share).
C16_TiesByFirstAppearance ==
    op = "reciprocal_rank_fusion" =>
        /\ \A i, j \in 1..Len(result) :
              (i < j /\ result[i].rrf_score = result[j].rrf_score)
                  => FirstSeen(result[i].id) < FirstSeen(result[j].id)
        /\ \A i, j \in 1..Len(result) :
              i < j => \/ FracLess(result[j].rrf_score, result[i].rrf_score)
                       \/ /\ result[i].rrf_score = result[j].rrf_score
                          /\ FirstSeen(result[i].id) < FirstSeen(result[j].id)

C16_Witness ==
    /\ op = "reciprocal_rank_fusion"
    /\ Len(results_list) = 2
    /\ \E i, j \in 1..Len(result) :
          /\ i < j
          /\ result[i].rrf_score = result[j].rrf_score
          /\ ListsWith(result[i].id) = {1, 2}
          /\ ListsWith(result[j].id) = {1, 2}
          /\ FirstSeen(result[i].id) < FirstSeen(result[j].id)

(***************************************************************************)
(* Properties of the store and the retriever (Spec)                        *)
(***************************************************************************)
StoreIdList(cs) == [i \in 1..Len(cs) |-> cs[i].doc_id]

\* C2: after reset(), get_all_documents() returns [] and every later
\* retrieve on the retriever of that store returns [].
C2_EmptyAfterReset ==
    /\ (after_reset /\ op = "get_all_documents") => result = <<>>
    /\ (after_reset /\ op = "retrieve") => (result = <<>> /\ raised = "")

\* C3: rebuild_index() leaves the lexical index holding exactly the ids that
\* are in the content store, the empty store included.
C3_RebuildMatchesStore ==
    op = "rebuild_index" => doc_ids = StoreIdList(content_store)

\* C4: retrieve(query, top_k) returns at most top_k results.
C4_AtMostTopK ==
    op = "retrieve" => Len(result) <= arg.k

C4_Witness ==
    /\ op = "retrieve"
    /\ raised = ""
    /\ arg.k = 1
    /\ Len(collection) >= 2
    /\ Len(result) = 1

\* C6: while no item has ever been added, search, keyword_search and retrieve
\* return [] and do not raise.
C6_EmptyCorpusReturnsEmpty ==
    (next_id = 0 /\ op \in {"search", "keyword_search", "retrieve"}) =>
        (result = <<>> /\ raised = "")

C6_Witness ==
    /\ next_id = 0
    /\ has_retriever
    /\ op = "retrieve"
    /\ result = <<>>
    /\ raised = ""

\* C7: no result of retrieve has an id that is not in the content store, nor
\* None where the page and type joined from the content store should be.
C7_NoOrphanedResult ==
    (op = "retrieve" /\ raised = "") =>
        \A i \in 1..Len(result) :
            /\ result[i].id \in StoreIds(content_store)
            /\ result[i].page # NonePage
            /\ result[i].type # NoneType

\* what a lookup of the id given to the item has to return
RecordOf(item, doc_id) ==
    [doc_id |-> doc_id,
     original_content |-> IF "content" \in DOMAIN item THEN item.content ELSE NoneContent,
     summary |-> IF "summary" \in DOMAIN item THEN item.summary
                 ELSE IF "content" \in DOMAIN item THEN item.content ELSE <<>>,
     page |-> item.page,
     type |-> item.type,
     metadata |-> IF "metadata" \in DOMAIN item THEN item.metadata ELSE EmptyDict]

\* C13: get_original_content(id) with the id given to an item by add_documents
\* returns the record of that item (original content, summary, page, type,
\* metadata), right after the call and after every later call but reset().
C13_LookupRoundTrip ==
    [][/\ (op' = "add_documents") =>
             \A i \in 1..Len(arg') :
                get_original_content(content_store', next_id + i)
                   = <<RecordOf(arg'[i], next_id + i)>>
       /\ (op' # "reset") =>
             \A id \in StoreIds(content_store) :
                get_original_content(content_store', id)
                   = get_original_content(content_store, id)
       /\ (op' = "get_original_content") =>
             result' = get_original_content(content_store, arg')]_vars

C13_Witness ==
    /\ op = "get_original_content"
    /\ arg = 1
    /\ Len(content_store) = 3
    /\ result = <<RecordOf([type |-> "table", page |-> 2, content |-> <<"|">>,
                            summary |-> <<"b">>, metadata |-> EmptyDict], 1)>>

\* the lexical index was built on the content store as it is now
IndexCurrent ==
    /\ bm25.built
    /\ bm25.corpus = [i \in 1..Len(content_store) |-> Tokenize(content_store[i].summary)]
    /\ doc_ids = StoreIdList(content_store)
    /\ doc_summaries = [i \in 1..Len(content_store) |-> content_store[i].summary]

\* ids and scores of keyword_search(query, k) on the given index
IdsAndScores(b, ids, summaries, cs, query, k) ==
    LET r == keyword_search(b, ids, summaries, cs, query, k)
    IN [raised |-> r.raised,
        hits   |-> [i \in 1..Len(r.result) |->
                      [id |-> r.result[i].id, score |-> r.result[i].score]]]

\* C15: rebuild_index() on a content store that did not change since the
\* index was built leaves every keyword_search(query, n) with the same ordered
\* ids and scores, and a further rebuild changes nothing again.
C15_RebuildIdempotent ==
    [][(op' = "rebuild_index") =>
         /\ IndexCurrent =>
               \A q \in QueryPool, k \in TopKPool :
                  IdsAndScores(bm25', doc_ids', doc_summaries', content_store', q, 2 * k)
                     = IdsAndScores(bm25, doc_ids, doc_summaries, content_store, q, 2 * k)
         /\ raised' = "" =>
               LET again == _build_keyword_index(bm25', doc_ids', doc_summaries',
                                                 content_store')
               IN \A q \in QueryPool, k \in TopKPool :
                     IdsAndScores(again.bm25, again.doc_ids, again.doc_summaries,
                                  content_store', q, 2 * k)
                        = IdsAndScores(bm25', doc_ids', doc_summaries', content_store',
                                       q, 2 * k)]_vars

C15_Witness ==
    /\ op = "rebuild_index"
    /\ raised = ""
    /\ IndexCurrent
    /\ IdsAndScores(bm25, doc_ids, doc_summaries, content_store, <<"a">>, 2).hits # <<>>

\* the scores of the built index for the query of the call that ended
IndexScores == get_scores(bm25.corpus, Tokenize(arg.query))

\* fewer than n documents score at least as high as document idx
AmongBest(scores, idx, n) ==
    Cardinality({j \in 1..Len(scores) : j # idx /\ scores[j] >= scores[idx]}) < n

\* C11: keyword_search(query, n) returns at most n results in descending
\* BM25 score order, none with a score of exactly zero, and every document of
\* the built index that is among the n best-scoring ones and has a non-zero
\* score is returned.
C11_KeywordSearchContract ==
    (op = "keyword_search" /\ raised = "" /\ bm25.built) =>
        /\ Len(result) <= arg.k
        /\ \A i, j \in 1..Len(result) : i < j => result[i].score >= result[j].score
        /\ \A i \in 1..Len(result) : result[i].score # 0
        /\ \A idx \in 1..Len(IndexScores) :
              (idx <= Len(doc_ids) /\ IndexScores[idx] # 0
                 /\ AmongBest(IndexScores, idx, arg.k))
                 => \E i \in 1..Len(result) :
                       /\ result[i].id = doc_ids[idx]
                       /\ result[i].score = IndexScores[idx]

\* C10: no stored or indexed item has the empty string as its summary.
C10_SummaryNeverEmpty ==
    /\ \A i \in 1..Len(content_store) : content_store[i].summary # <<>>
    /\ \A i \in 1..Len(collection) : collection[i].document # <<>>
    /\ \A i \in 1..Len(doc_summaries) : doc_summaries[i] # <<>>

(***************************************************************************)
(* Properties of the store among twins and aborted calls (SpecStore)       *)
(***************************************************************************)
\* the stored record of the id
RecordWithId(id) == CHOOSE r \in Range(content_store) : r.doc_id = id

\* C14: ids are unique across the corpus; items with the same summary text
\* have ids and records of their own; a lookup or a search result for an id
\* carries the page, type and original content of the item stored under that
\* id, never those of another item; both twins can be in one result list.
C14_TwinsIndependent ==
    /\ \A i, j \in 1..Len(content_store) :
          i # j => content_store[i].doc_id # content_store[j].doc_id
    /\ \A i, j \in 1..Len(collection) : i # j => collection[i].id # collection[j].id
    /\ (op = "get_original_content" /\ result # <<>>) =>
          /\ Len(result) = 1
          /\ result[1].doc_id = arg
          /\ result[1] = RecordWithId(arg)
    /\ (op \in {"search", "keyword_search"} /\ raised = "") =>
          /\ \A i, j \in 1..Len(result) : i # j => result[i].id # result[j].id
          /\ \A i \in 1..Len(result) :
                IF result[i].id \in StoreIds(content_store)
                THEN /\ result[i].page = RecordWithId(result[i].id).page
                     /\ result[i].type = RecordWithId(result[i].id).type
                     /\ result[i].original_content
                           = RecordWithId(result[i].id).original_content
                ELSE result[i].original_content = NoneContent

C14_Witness ==
    /\ op = "keyword_search"
    /\ \E i, j \in 1..Len(result) :
          /\ result[i].document = result[j].document
          /\ result[i].id # result[j].id
          /\ result[i].id \in StoreIds(content_store)
          /\ result[j].id \in StoreIds(content_store)
          /\ result[i].page = 1 /\ result[i].original_content = <<"b">>
          /\ result[j].page = 2 /\ result[j].original_content = <<"|">>

\* C17: the content store and the embedding index hold the same set of ids,
\* whether the calls made so far returned or raised.
C17_StoreMatchesIndex ==
    StoreIds(content_store) = CollectionIds(collection)

(***************************************************************************)
(* Properties of reset() against a concurrent reader (SpecConc)            *)
(***************************************************************************)
\* the embedding index, the content store and the lexical index hold the
\* same corpus (all of it, or all three nothing)
CorpusWhole ==
    /\ collection_live
    /\ CollectionIds(collection) = StoreIds(content_store)
    /\ has_retriever => Range(doc_ids) = StoreIds(content_store)

\* C8: a statement of reset() never takes a populated corpus that is whole to
\* a state, open to a reader, in which one of the three parts is cleared and
\* another is not.
C8_ResetAtomic ==
    [][(reset_pc' # reset_pc /\ CorpusWhole /\ content_store # <<>>) => CorpusWhole']_vars

(***************************************************************************)
(* Properties of the session (SpecApp)                                     *)
(***************************************************************************)
\* C9: whenever the session serves the items of a document, its content
\* store, embedding index and lexical index hold the items of that one
\* document, and none of the three has been destroyed.
C9_OneLiveCorpus ==
    (session.document_processed /\ content_store # <<>>) =>
        /\ collection_live
        /\ CollectionIds(collection) = StoreIds(content_store)
        /\ Range(doc_ids) = StoreIds(content_store)

====
